---- MODULE Spec2Model ----
(***************************************************************************)
(* A model of the chat-completions gateway: the provider resolver          *)
(* (providers/__init__.py), the agent-style adapter (providers/bedrock.py),*)
(* the model-style adapter (providers/openai.py) and the Flask handler     *)
(* with its own aggregator and SSE generator (app.py).                     *)
(*                                                                         *)
(* One behaviour of Spec is one call of one entry point: Init draws the    *)
(* entry point and its arguments, the actions are the steps of that call   *)
(* (the code up to the backend invocation, one iteration of the loop over  *)
(* the event stream, one yield after the loop), and the backend's answers  *)
(* (an invocation that returns or raises, the next event of the stream, a  *)
(* stream that ends or raises) are drawn when the code asks for them.      *)
(***************************************************************************)
EXTENDS Naturals, Integers, Sequences, FiniteSets, TLC

VARIABLES
    op,               \* the entry point this behaviour executes
    pc,               \* position inside the entry point
    request,          \* the arguments of the call / the JSON body of the request
    environ,          \* the process environment and the SDK constructors' behaviour
    stream_kind,      \* what response.get("completion", []) returned
    consumed,         \* the backend events the code has pulled so far, in order
    frames,           \* the SSE frames the generator has yielded so far, in order
    has_sent_content, \* the local flag of the generators
    full_response,    \* the local list of the aggregators
    calls,            \* the backend invocations made so far
    clients,          \* how many backend clients the handler created
    constructed,      \* the adapters get_provider constructed, in order
    avail_checked,    \* the adapters whose is_available() get_provider called
    caught,           \* TRUE once the outermost except clause of a generator ran
    result,           \* what the entry point returned or raised
    stream_end,       \* how the loop over the event stream ended
    outputs,          \* what each pulled event made the loop produce, in order
    served,           \* the requests handled concurrently, each with its generator
    backend_log       \* the invocations the shared backend client saw, in order

vars == << op, pc, request, environ, stream_kind, consumed, frames,
           has_sent_content, full_response, calls, clients, constructed,
           avail_checked, caught, result, stream_end, outputs, served,
           backend_log >>

-----------------------------------------------------------------------------
(* Bounds *)

\* Messages of the conversation plus backend events of the response.
MaxSize == 3

-----------------------------------------------------------------------------
(* Text.  A text is a sequence of characters; a fixed literal of the code   *)
(* is one element.  Python's str.strip() removes leading and trailing       *)
(* whitespace; a text is truthy when it is not empty.                       *)

Whitespace == {" "}

NonBlankIdx(t) == {i \in 1..Len(t) : t[i] \notin Whitespace}

MinOf(S) == CHOOSE x \in S : \A y \in S : x <= y

MaxOf(S) == CHOOSE x \in S : \A y \in S : x >= y

Strip(t) ==
    IF NonBlankIdx(t) = {} THEN << >>
    ELSE SubSeq(t, MinOf(NonBlankIdx(t)), MaxOf(NonBlankIdx(t)))

Truthy(t) == t # << >>

RECURSIVE JoinWith(_, _)
JoinWith(sep, parts) ==
    IF parts = << >> THEN << >>
    ELSE IF Len(parts) = 1 THEN parts[1]
    ELSE parts[1] \o sep \o JoinWith(sep, Tail(parts))

RECURSIVE SeqsUpTo(_, _)
SeqsUpTo(S, n) ==
    IF n = 0 THEN {<< >>}
    ELSE SeqsUpTo(S, n - 1) \cup
         {Append(s, x) : s \in {q \in SeqsUpTo(S, n - 1) : Len(q) = n - 1}, x \in S}

Last(s) == s[Len(s)]

\* The literals of the code.
AGENT_PLACEHOLDER ==
    <<"I apologize, but I received no response from the agent. How else can I assist you?">>

MODEL_PLACEHOLDER ==
    <<"I apologize, but I received no response. How else can I assist you?">>

ERROR_PLACEHOLDER ==
    <<"I apologize, but I encountered an error processing the response. How else can I assist you?">>

TROUBLE_PLACEHOLDER ==
    <<"I apologize, but I'm having trouble processing the response. How else can I assist you?">>

NO_USER_MESSAGE == <<"No user message found">>

\* str(e) of an exception the backend SDK raises.
BackendErrors == {<<"boom">>}

-----------------------------------------------------------------------------
(* Requests *)

Msg(role, content) == [role |-> role, content |-> content]

MessageAlphabet ==
    { Msg("user", << >>), Msg("user", <<"a">>), Msg("user", <<"b">>),
      Msg("assistant", <<"a">>), Msg("system", <<"b">>) }

MessageLists == SeqsUpTo(MessageAlphabet, MaxSize)

NoName == "<None>"

NoSession == "<absent>"

ProviderNames == {NoName, "", "bedrock", "Bedrock", "openai", "OPENAI", "unknownx"}

\* str.lower() on the names above.
Lower(name) ==
    CASE name = "Bedrock" -> "bedrock"
      [] name = "OPENAI" -> "openai"
      [] OTHER -> name

Request(messages, session_id, stream, provider_name, model) ==
    [ messages |-> messages, session_id |-> session_id, stream |-> stream,
      provider_name |-> provider_name, completion_id |-> "chatcmpl-1",
      created |-> 1, model |-> model ]

\* No completion envelope (the result is not one).
NoEnvelope ==
    [ object |-> "", model |-> "", choices |-> << >>,
      usage |-> [ prompt_tokens |-> 0, completion_tokens |-> 0,
                  total_tokens |-> 0 ] ]

NoResult ==
    [ kind |-> "none", status |-> 0, body |-> "", content |-> << >>,
      content_none |-> FALSE, error |-> << >>, provider |-> "",
      envelope |-> NoEnvelope ]

-----------------------------------------------------------------------------
(* Environment *)

EnvVars == {"AGENT_ID", "AGENT_ALIAS_ID", "AWS_ACCESS_KEY_ID",
            "AWS_SECRET_ACCESS_KEY", "OPENAI_API_KEY"}

KnownProviders == {"bedrock", "openai"}

\* The insertion order of the providers dictionary.
ProviderOrder == <<"bedrock", "openai">>

\* env: the variables that are set to a non-empty value;
\* ctor_fails: the adapters whose constructor (the SDK client's) raises;
\* default_provider: the provider the deployment's configuration names as its
\* default, if any (get_provider reads its argument and nothing else).
Environments ==
    [ env : SUBSET EnvVars, ctor_fails : SUBSET KnownProviders,
      default_provider : {NoName} \cup KnownProviders ]

DefaultEnviron ==
    [ env |-> EnvVars, ctor_fails |-> {}, default_provider |-> NoName ]

BedrockIsAvailable(e) ==
    /\ "AGENT_ID" \in e.env
    /\ "AGENT_ALIAS_ID" \in e.env
    /\ "AWS_ACCESS_KEY_ID" \in e.env
    /\ "AWS_SECRET_ACCESS_KEY" \in e.env

OpenAIIsAvailable(e) == "OPENAI_API_KEY" \in e.env

IsAvailable(p, e) ==
    IF p = "bedrock" THEN BedrockIsAvailable(e) ELSE OpenAIIsAvailable(e)

-----------------------------------------------------------------------------
(* Provider resolver: get_provider *)

Resolved(kind, provider, error, built, checked) ==
    [ result |-> [NoResult EXCEPT !.kind = kind, !.provider = provider,
                                  !.error = error],
      constructed |-> built, avail_checked |-> checked ]

\* The loop: for name, provider_class in providers.items(): ...
RECURSIVE GetProviderProbe(_, _, _, _)
GetProviderProbe(i, e, built, checked) ==
    IF i > Len(ProviderOrder)
    THEN Resolved("raise", "", <<"No provider is available">>, built, checked)
    ELSE IF ProviderOrder[i] \in e.ctor_fails
    THEN GetProviderProbe(i + 1, e, Append(built, ProviderOrder[i]), checked)
    ELSE IF IsAvailable(ProviderOrder[i], e)
    THEN Resolved("return", ProviderOrder[i], << >>,
                  Append(built, ProviderOrder[i]), Append(checked, ProviderOrder[i]))
    ELSE GetProviderProbe(i + 1, e, Append(built, ProviderOrder[i]),
                          Append(checked, ProviderOrder[i]))

\* Mutant: an unknown explicit name is taken as no name at all.
GetProviderExplicitUnknownProbes(name, e) ==
    IF Lower(name) \notin KnownProviders
    THEN GetProviderProbe(1, e, << >>, << >>)
    ELSE IF Lower(name) \in e.ctor_fails
    THEN Resolved("raise", "", <<"constructor error">>, <<Lower(name)>>, << >>)
    ELSE IF ~IsAvailable(Lower(name), e)
    THEN Resolved("raise", "", <<"Provider is not available">>,
                  <<Lower(name)>>, <<Lower(name)>>)
    ELSE Resolved("return", Lower(name), << >>, <<Lower(name)>>, <<Lower(name)>>)

\* Mutant: an unavailable explicit provider falls back to the probing loop.
GetProviderExplicitFallsBack(name, e) ==
    IF Lower(name) \notin KnownProviders
    THEN Resolved("raise", "", <<"Unknown provider">>, << >>, << >>)
    ELSE IF Lower(name) \in e.ctor_fails
    THEN Resolved("raise", "", <<"constructor error">>, <<Lower(name)>>, << >>)
    ELSE IF ~IsAvailable(Lower(name), e)
    THEN GetProviderProbe(1, e, <<Lower(name)>>, <<Lower(name)>>)
    ELSE Resolved("return", Lower(name), << >>, <<Lower(name)>>, <<Lower(name)>>)

\* The explicit branch: if provider_name: ...
GetProviderExplicit(name, e) ==
    IF Lower(name) \notin KnownProviders
    THEN Resolved("raise", "", <<"Unknown provider">>, << >>, << >>)
    ELSE IF Lower(name) \in e.ctor_fails
    THEN Resolved("raise", "", <<"constructor error">>, <<Lower(name)>>, << >>)
    ELSE IF ~IsAvailable(Lower(name), e)
    THEN Resolved("raise", "", <<"Provider is not available">>,
                  <<Lower(name)>>, <<Lower(name)>>)
    ELSE Resolved("return", Lower(name), << >>, <<Lower(name)>>, <<Lower(name)>>)

NameGiven(name) == name # NoName /\ name # ""

\* Mutant: without a name the configured default is resolved like a name.
GetProviderOutcomeUsesDefault(name, e) ==
    IF NameGiven(name) THEN GetProviderExplicit(name, e)
    ELSE IF e.default_provider # NoName
    THEN GetProviderExplicit(e.default_provider, e)
    ELSE GetProviderProbe(1, e, << >>, << >>)

\* Mutant: without a name the model-style adapter is tried first.
GetProviderOutcomeOpenAIFirst(name, e) ==
    IF NameGiven(name) THEN GetProviderExplicit(name, e)
    ELSE IF "openai" \notin e.ctor_fails /\ IsAvailable("openai", e)
    THEN Resolved("return", "openai", << >>, <<"openai">>, <<"openai">>)
    ELSE GetProviderProbe(1, e, << >>, << >>)

GetProviderOutcome(name, e) ==
    IF NameGiven(name) THEN GetProviderExplicit(name, e)
    ELSE GetProviderProbe(1, e, << >>, << >>)

GetProvider ==
    /\ op = "get_provider"
    /\ pc = "start"
    /\ LET out == GetProviderOutcome(request.provider_name, environ)
       IN /\ result' = out.result
          /\ constructed' = out.constructed
          /\ avail_checked' = out.avail_checked
    /\ pc' = "returned"
    /\ UNCHANGED << stream_end, outputs, served, backend_log >>
    /\ UNCHANGED << op, request, environ, stream_kind, consumed, frames,
                    has_sent_content, full_response, calls, clients, caught >>

-----------------------------------------------------------------------------
(* Backend events *)

Event(shape, enc, json, text, content) ==
    [ shape |-> shape, enc |-> enc, json |-> json, text |-> text,
      content |-> content ]

\* {"trace": {"trace": {"orchestrationTrace": {...}}}}, with or without
\* observation.finalResponse.text
TraceEvent(json, text) == Event("trace", "", json, text, << >>)

\* {"chunk": {"bytes": b"..."}}: enc says which codec decodes the bytes
\* ("utf8": valid UTF-8; "latin1": not valid UTF-8; "nobytes": no bytes key),
\* text is what the codec yields, json what json.loads makes of that text
\* ("invalid": JSONDecodeError; "object": a dict with a string content;
\* "object_nonstring": a dict whose content is a number; "object_nocontent":
\* a dict without content; "scalar": a number).
ChunkEvent(enc, json, text, content) == Event("chunk", enc, json, text, content)

JsonSource == <<"{json}">>

AgentEvents ==
    { TraceEvent("nofinal", << >>),
      TraceEvent("final", <<"a">>),
      ChunkEvent("utf8", "invalid", <<" ", "a">>, << >>),
      ChunkEvent("utf8", "invalid", <<" ">>, << >>),
      ChunkEvent("utf8", "object", JsonSource, <<"b", " ">>),
      ChunkEvent("utf8", "object", JsonSource, <<" ">>),
      ChunkEvent("utf8", "object_nonstring", JsonSource, << >>),
      ChunkEvent("utf8", "object_nocontent", JsonSource, << >>),
      ChunkEvent("utf8", "scalar", <<"42">>, << >>),
      ChunkEvent("latin1", "invalid", <<" ", "a">>, << >>),
      ChunkEvent("nobytes", "", << >>, << >>),
      Event("text", "", "", <<"a">>, << >>),
      Event("content", "", "", << >>, <<"b">>),
      Event("other", "", "", << >>, << >>) }

\* A ChatCompletionChunk: choices is empty or holds one choice with
\* delta.content (None, or a text) and finish_reason (None, or a reason).
ModelEvent(has_choice, content_none, content, finish_reason) ==
    [ has_choice |-> has_choice, content_none |-> content_none,
      content |-> content, finish_reason |-> finish_reason ]

Null == "null"

ModelEvents ==
    { ModelEvent(FALSE, TRUE, << >>, Null),
      ModelEvent(TRUE, TRUE, << >>, Null),
      ModelEvent(TRUE, FALSE, << >>, Null),
      ModelEvent(TRUE, FALSE, <<"a">>, Null),
      ModelEvent(TRUE, FALSE, <<" ">>, Null),
      ModelEvent(TRUE, FALSE, <<"b">>, "stop"),
      ModelEvent(TRUE, TRUE, << >>, "stop"),
      ModelEvent(TRUE, TRUE, << >>, "length") }

-----------------------------------------------------------------------------
(* Decoding one agent event *)

Decoded(kind, text) == [ kind |-> kind, text |-> text ]

Nothing == Decoded("nothing", << >>)

Raises == Decoded("raise", << >>)

Fragment(text) == Decoded("fragment", text)

\* Mutant: a payload that is valid JSON but carries no content is kept as
\* plain text, like a payload that is not JSON.
DecodeSyncJsonAsText(ev) ==
    CASE ev.shape = "trace" ->
            IF ev.json = "final" /\ Truthy(ev.text) THEN Fragment(ev.text)
            ELSE Nothing
      [] ev.shape = "chunk" ->
            CASE ev.enc = "nobytes" -> Raises
              [] ev.enc = "latin1" ->
                    IF Truthy(Strip(ev.text)) THEN Fragment(ev.text) ELSE Nothing
              [] OTHER ->
                    IF ~Truthy(Strip(ev.text)) THEN Nothing
                    ELSE CASE ev.json = "invalid" -> Fragment(ev.text)
                           [] ev.json = "object" ->
                                 IF Truthy(Strip(ev.content))
                                 THEN Fragment(ev.content) ELSE Nothing
                           [] ev.json = "object_nonstring" -> Raises
                           [] OTHER -> Fragment(ev.text)
      [] ev.shape = "text" ->
            IF Truthy(ev.text) /\ Truthy(Strip(ev.text)) THEN Fragment(ev.text)
            ELSE Nothing
      [] ev.shape = "content" ->
            IF Truthy(ev.content) /\ Truthy(Strip(ev.content))
            THEN Fragment(ev.content) ELSE Nothing
      [] OTHER -> Nothing

\* The body of the for loop of _process_completion_stream: "raise" is an
\* exception that leaves the loop for the function's except clause.
DecodeSync(ev) ==
    CASE ev.shape = "trace" ->
            IF ev.json = "final" /\ Truthy(ev.text) THEN Fragment(ev.text)
            ELSE Nothing
      [] ev.shape = "chunk" ->
            CASE ev.enc = "nobytes" -> Raises
              [] ev.enc = "latin1" ->
                    IF Truthy(Strip(ev.text)) THEN Fragment(ev.text) ELSE Nothing
              [] OTHER ->
                    IF ~Truthy(Strip(ev.text)) THEN Nothing
                    ELSE CASE ev.json = "invalid" -> Fragment(ev.text)
                           [] ev.json = "object" ->
                                 IF Truthy(Strip(ev.content))
                                 THEN Fragment(ev.content) ELSE Nothing
                           [] ev.json = "object_nonstring" -> Raises
                           [] OTHER -> Nothing
      [] ev.shape = "text" ->
            IF Truthy(ev.text) /\ Truthy(Strip(ev.text)) THEN Fragment(ev.text)
            ELSE Nothing
      [] ev.shape = "content" ->
            IF Truthy(ev.content) /\ Truthy(Strip(ev.content))
            THEN Fragment(ev.content) ELSE Nothing
      [] OTHER -> Nothing

\* Mutant: the streaming loop decodes an event as the synchronous loop does.
DecodeStreamAsSync(ev) ==
    IF DecodeSync(ev).kind = "fragment" THEN DecodeSync(ev) ELSE Nothing

\* Mutant: a payload that is not JSON is skipped like any other decoding error.
DecodeStreamDropsRaw(ev) ==
    IF ev.shape # "chunk" THEN Nothing
    ELSE IF ev.enc # "utf8" THEN Nothing
    ELSE IF ~Truthy(Strip(ev.text)) THEN Nothing
    ELSE IF ev.json = "object" /\ Truthy(Strip(ev.content))
    THEN Fragment(Strip(ev.content))
    ELSE Nothing

\* The body of the for loop of get_streaming_response: only chunk events are
\* looked at, and "except Exception" swallows whatever the decoding raises.
DecodeStream(ev) ==
    IF ev.shape # "chunk" THEN Nothing
    ELSE IF ev.enc # "utf8" THEN Nothing
    ELSE IF ~Truthy(Strip(ev.text)) THEN Nothing
    ELSE CASE ev.json = "invalid" -> Fragment(Strip(ev.text))
           [] ev.json = "object" ->
                 IF Truthy(Strip(ev.content)) THEN Fragment(Strip(ev.content))
                 ELSE Nothing
           [] OTHER -> Nothing

-----------------------------------------------------------------------------
(* SSE frames *)

Frame(kind, r, delta, content, finish_reason, message, type, code) ==
    [ kind |-> kind,
      id |-> IF kind = "chunk" THEN r.completion_id ELSE "",
      created |-> IF kind = "chunk" THEN r.created ELSE 0,
      model |-> IF kind = "chunk" THEN r.model ELSE "",
      delta |-> delta, content |-> content, finish_reason |-> finish_reason,
      message |-> message, type |-> type, code |-> code ]

\* delta {"role": "assistant"}, finish_reason None
RoleChunk(r) == Frame("chunk", r, "role", << >>, Null, << >>, "", 0)

\* delta {"content": text}, finish_reason None
ContentChunk(r, text) == Frame("chunk", r, "content", text, Null, << >>, "", 0)

\* delta {}, finish_reason set
FinalChunk(r, reason) == Frame("chunk", r, "empty", << >>, reason, << >>, "", 0)

\* data: [DONE]
DoneFrame(r) == Frame("done", r, "", << >>, Null, << >>, "", 0)

\* {"error": {"message": ..., "type": ..., "code": ...}}
ErrorFrame(r, message, type, code) ==
    Frame("error", r, "", << >>, Null, message, type, code)

-----------------------------------------------------------------------------
(* The state of one call *)

Locals ==
    [ pc |-> pc, stream_kind |-> stream_kind, consumed |-> consumed,
      frames |-> frames, has_sent_content |-> has_sent_content,
      full_response |-> full_response, calls |-> calls, clients |-> clients,
      caught |-> caught, result |-> result, stream_end |-> stream_end ]

\* What one iteration of a loop over the event stream did with its event:
\* the frames it yielded, the fragments it appended, and whether an exception
\* left the loop.
Produced(before, after) ==
    [ frames |-> SubSeq(after.frames, Len(before.frames) + 1, Len(after.frames)),
      fragments |-> SubSeq(after.full_response, Len(before.full_response) + 1,
                           Len(after.full_response)),
      raised |-> after.stream_end = "decode_raised" ]

Become(g) ==
    /\ pc' = g.pc
    /\ stream_kind' = g.stream_kind
    /\ consumed' = g.consumed
    /\ frames' = g.frames
    /\ has_sent_content' = g.has_sent_content
    /\ full_response' = g.full_response
    /\ calls' = g.calls
    /\ clients' = g.clients
    /\ caught' = g.caught
    /\ result' = g.result
    /\ stream_end' = g.stream_end
    /\ outputs' = IF Len(g.consumed) > Len(consumed)
                  THEN Append(outputs, Produced(Locals, g))
                  ELSE outputs
    /\ UNCHANGED << op, request, environ, constructed, avail_checked, served,
                    backend_log >>

\* The backend may hand over one more event.
CanYield(g, r) == Len(r.messages) + Len(g.consumed) < MaxSize

\* next((msg["content"] for msg in reversed(messages) if msg["role"] == "user"), None)
UserIdx(messages) == {i \in 1..Len(messages) : messages[i].role = "user"}

HasUser(messages) == UserIdx(messages) # {}

\* Mutant: the oldest user message is taken.
FirstUserContent(messages) == messages[MinOf(UserIdx(messages))].content

LastUserContent(messages) == messages[MaxOf(UserIdx(messages))].content

\* if not last_message: None and "" are both falsy
NoLastMessage(messages) ==
    ~HasUser(messages) \/ ~Truthy(LastUserContent(messages))

\* invoke_agent(sessionId=..., inputText=...)
AgentCall(session_id, input_text) ==
    [ api |-> "invoke_agent", session_id |-> session_id,
      input_text |-> input_text, messages |-> << >>, model |-> "" ]

\* chat.completions.create(model=..., messages=..., stream=...)
ModelCall(model, messages) ==
    [ api |-> "completions.create", session_id |-> "", input_text |-> << >>,
      messages |-> messages, model |-> model ]

\* f"session_{str(uuid.uuid4())[:8]}"
FreshSession == "session_fresh"

\* What response.get("completion", []) can be: the default [] or the event stream.
StreamKinds == {"list", "iter"}

Returned(g, content) ==
    [g EXCEPT !.pc = "returned",
              !.result = [NoResult EXCEPT !.kind = "return", !.content = content]]

-----------------------------------------------------------------------------
(* Agent-style adapter: BedrockProvider *)

\* Mutant: the error envelope is followed by [DONE].
BedrockStreamExceptThenDone(g, r, message) ==
    [g EXCEPT !.pc = "closed", !.caught = TRUE,
              !.frames = @ \o <<ErrorFrame(r, message, "server_error", 500),
                                DoneFrame(r)>>]

\* except Exception as e: yield the error envelope
BedrockStreamExcept(g, r, message) ==
    [g EXCEPT !.pc = "closed", !.caught = TRUE,
              !.frames = Append(@, ErrorFrame(r, message, "server_error", 500))]

\* Mutant: the role chunk waits until the backend has been invoked.
BedrockStreamStartSilent(g, r) ==
    { [g EXCEPT !.pc = "invoke"] }

BedrockStreamStart(g, r) ==
    { [g EXCEPT !.pc = "invoke", !.frames = Append(@, RoleChunk(r))] }

BedrockStreamInvoke(g, r) ==
    IF NoLastMessage(r.messages)
    THEN { BedrockStreamExcept(g, r, NO_USER_MESSAGE) }
    ELSE { BedrockStreamExcept(g, r, m) : m \in BackendErrors } \cup
         { [g EXCEPT !.pc = "loop", !.stream_kind = k,
                     !.has_sent_content = FALSE,
                     !.calls = Append(@, AgentCall(FreshSession,
                                                   LastUserContent(r.messages)))]
           : k \in StreamKinds }

\* Mutant: the newest content chunk is put in front of the earlier ones.
BedrockStreamOnEventInFront(g, r, ev) ==
    IF DecodeStream(ev).kind = "fragment"
    THEN [g EXCEPT !.consumed = Append(@, ev),
                   !.frames = <<Head(@)>>
                              \o <<ContentChunk(r, DecodeStream(ev).text)>>
                              \o Tail(@),
                   !.has_sent_content = TRUE]
    ELSE [g EXCEPT !.consumed = Append(@, ev)]

\* Mutant: the loop remembers that it has sent content and sends no more.
BedrockStreamOnEventOnce(g, r, ev) ==
    IF DecodeStream(ev).kind = "fragment" /\ ~g.has_sent_content
    THEN [g EXCEPT !.consumed = Append(@, ev),
                   !.frames = Append(@, ContentChunk(r, DecodeStream(ev).text)),
                   !.has_sent_content = TRUE]
    ELSE [g EXCEPT !.consumed = Append(@, ev)]

\* One iteration of "for event in completion_stream".
BedrockStreamOnEvent(g, r, ev) ==
    IF DecodeStream(ev).kind = "fragment"
    THEN [g EXCEPT !.consumed = Append(@, ev),
                   !.frames = Append(@, ContentChunk(r, DecodeStream(ev).text)),
                   !.has_sent_content = TRUE]
    ELSE [g EXCEPT !.consumed = Append(@, ev)]

BedrockStreamLoop(g, r) ==
    { [g EXCEPT !.pc = "after_loop", !.stream_end = "exhausted"] } \cup
    IF g.stream_kind = "iter"
    THEN { BedrockStreamExcept([g EXCEPT !.stream_end = "raised"], r, m)
           : m \in BackendErrors } \cup
         IF CanYield(g, r)
         THEN { BedrockStreamOnEvent(g, r, ev) : ev \in AgentEvents }
         ELSE {}
    ELSE {}

\* The yields after the loop: the placeholder, the final chunk, [DONE].
BedrockStreamTail(g, r) ==
    CASE g.pc = "after_loop" /\ ~g.has_sent_content ->
            { [g EXCEPT !.pc = "final",
                        !.frames = Append(@, ContentChunk(r, AGENT_PLACEHOLDER))] }
      [] g.pc = "after_loop" \/ g.pc = "final" ->
            { [g EXCEPT !.pc = "done",
                        !.frames = Append(@, FinalChunk(r, "stop"))] }
      [] g.pc = "done" ->
            { [g EXCEPT !.pc = "closed", !.frames = Append(@, DoneFrame(r))] }
      [] OTHER -> {}

\* Mutant: get_response without its try/except.
BedrockGetResponseInvokeUncaught(g, r) ==
    IF NoLastMessage(r.messages)
    THEN { [g EXCEPT !.pc = "returned",
                     !.result = [NoResult EXCEPT !.kind = "raise",
                                                 !.error = NO_USER_MESSAGE]] }
    ELSE { [g EXCEPT !.pc = "returned",
                     !.result = [NoResult EXCEPT !.kind = "raise", !.error = m]]
           : m \in BackendErrors } \cup
         { [g EXCEPT !.pc = "loop", !.stream_kind = k,
                     !.calls = Append(@, AgentCall(FreshSession,
                                                   LastUserContent(r.messages)))]
           : k \in StreamKinds }

\* get_response up to the call of _process_completion_stream
BedrockGetResponseInvoke(g, r) ==
    IF NoLastMessage(r.messages)
    THEN { Returned(g, <<"Error: ">> \o NO_USER_MESSAGE) }
    ELSE { Returned(g, <<"Error: ">> \o m) : m \in BackendErrors } \cup
         { [g EXCEPT !.pc = "loop", !.stream_kind = k,
                     !.calls = Append(@, AgentCall(FreshSession,
                                                   LastUserContent(r.messages)))]
           : k \in StreamKinds }

\* Mutant: each new fragment is put in front of the ones collected so far.
ProcessCompletionStreamStepPrepends(g, r) ==
    IF g.stream_kind = "list"
    THEN { Returned(g, AGENT_PLACEHOLDER) }
    ELSE { Returned([g EXCEPT !.stream_end = "raised"], ERROR_PLACEHOLDER) } \cup
         { Returned([g EXCEPT !.stream_end = "exhausted"],
                    IF g.full_response = << >> THEN TROUBLE_PLACEHOLDER
                    ELSE JoinWith(<<" ">>, g.full_response)) } \cup
         IF CanYield(g, r)
         THEN { CASE DecodeSync(ev).kind = "fragment" ->
                       [g EXCEPT !.consumed = Append(@, ev),
                                 !.full_response = <<DecodeSync(ev).text>> \o @]
                  [] DecodeSync(ev).kind = "raise" ->
                       Returned([g EXCEPT !.consumed = Append(@, ev),
                                          !.stream_end = "decode_raised"],
                                ERROR_PLACEHOLDER)
                  [] OTHER -> [g EXCEPT !.consumed = Append(@, ev)]
                : ev \in AgentEvents }
         ELSE {}

\* Mutant: a stream that ends without a fragment gives the agent placeholder.
ProcessCompletionStreamStepOnePlaceholder(g, r) ==
    IF g.stream_kind = "list"
    THEN { Returned(g, AGENT_PLACEHOLDER) }
    ELSE { Returned([g EXCEPT !.stream_end = "raised"], ERROR_PLACEHOLDER) } \cup
         { Returned([g EXCEPT !.stream_end = "exhausted"],
                    IF g.full_response = << >> THEN AGENT_PLACEHOLDER
                    ELSE JoinWith(<<" ">>, g.full_response)) } \cup
         IF CanYield(g, r)
         THEN { CASE DecodeSync(ev).kind = "fragment" ->
                       [g EXCEPT !.consumed = Append(@, ev),
                                 !.full_response = Append(@, DecodeSync(ev).text)]
                  [] DecodeSync(ev).kind = "raise" ->
                       Returned([g EXCEPT !.consumed = Append(@, ev),
                                          !.stream_end = "decode_raised"],
                                ERROR_PLACEHOLDER)
                  [] OTHER -> [g EXCEPT !.consumed = Append(@, ev)]
                : ev \in AgentEvents }
         ELSE {}

\* _process_completion_stream, one iteration of its loop (or its end)
ProcessCompletionStreamStep(g, r) ==
    IF g.stream_kind = "list"
    THEN { Returned(g, AGENT_PLACEHOLDER) }
    ELSE { Returned([g EXCEPT !.stream_end = "raised"], ERROR_PLACEHOLDER) } \cup
         { Returned([g EXCEPT !.stream_end = "exhausted"],
                    IF g.full_response = << >> THEN TROUBLE_PLACEHOLDER
                    ELSE JoinWith(<<" ">>, g.full_response)) } \cup
         IF CanYield(g, r)
         THEN { CASE DecodeSync(ev).kind = "fragment" ->
                       [g EXCEPT !.consumed = Append(@, ev),
                                 !.full_response = Append(@, DecodeSync(ev).text)]
                  [] DecodeSync(ev).kind = "raise" ->
                       Returned([g EXCEPT !.consumed = Append(@, ev),
                                          !.stream_end = "decode_raised"],
                                ERROR_PLACEHOLDER)
                  [] OTHER -> [g EXCEPT !.consumed = Append(@, ev)]
                : ev \in AgentEvents }
         ELSE {}

BedrockStreamStartAction ==
    /\ op = "bedrock.get_streaming_response"
    /\ pc = "start"
    /\ \E g \in BedrockStreamStart(Locals, request) : Become(g)

BedrockStreamInvokeAction ==
    /\ op = "bedrock.get_streaming_response"
    /\ pc = "invoke"
    /\ \E g \in BedrockStreamInvoke(Locals, request) : Become(g)

BedrockStreamLoopAction ==
    /\ op = "bedrock.get_streaming_response"
    /\ pc = "loop"
    /\ \E g \in BedrockStreamLoop(Locals, request) : Become(g)

BedrockStreamTailAction ==
    /\ op = "bedrock.get_streaming_response"
    /\ pc \in {"after_loop", "final", "done"}
    /\ \E g \in BedrockStreamTail(Locals, request) : Become(g)

BedrockGetResponseInvokeAction ==
    /\ op = "bedrock.get_response"
    /\ pc = "start"
    /\ \E g \in BedrockGetResponseInvoke(Locals, request) : Become(g)

BedrockGetResponseLoopAction ==
    /\ op = "bedrock.get_response"
    /\ pc = "loop"
    /\ \E g \in ProcessCompletionStreamStep(Locals, request) : Become(g)

-----------------------------------------------------------------------------
(* Model-style adapter: OpenAIProvider *)

\* What chat.completions.create(stream=False) returns: choices is empty or
\* holds one choice with message.content (None, or a text).
ModelMessage(has_choice, content_none, content) ==
    [ has_choice |-> has_choice, content_none |-> content_none,
      content |-> content ]

ModelMessages ==
    { ModelMessage(FALSE, TRUE, << >>), ModelMessage(TRUE, TRUE, << >>),
      ModelMessage(TRUE, FALSE, << >>), ModelMessage(TRUE, FALSE, <<"a">>) }

INDEX_ERROR == <<"list index out of range">>

OpenAIGetResponse(g, r) ==
    { Returned(g, <<"Error: ">> \o m) : m \in BackendErrors } \cup
    { LET called == [g EXCEPT !.calls = Append(@, ModelCall("gpt-4o-mini",
                                                            r.messages))]
      IN IF ~msg.has_choice
         THEN Returned(called, <<"Error: ">> \o INDEX_ERROR)
         ELSE [called EXCEPT !.pc = "returned",
                !.result = [NoResult EXCEPT !.kind = "return",
                                            !.content = msg.content,
                                            !.content_none = msg.content_none]]
      : msg \in ModelMessages }

\* if delta.content: None and "" are both falsy
HasDeltaContent(ev) == ev.has_choice /\ ~ev.content_none /\ Truthy(ev.content)

\* _process_openai_stream, one iteration of its loop (or its end)
ProcessOpenAIStreamStep(g, r) ==
    IF g.stream_kind = "list"
    THEN { Returned(g, MODEL_PLACEHOLDER) }
    ELSE { Returned([g EXCEPT !.stream_end = "raised"], ERROR_PLACEHOLDER) } \cup
         { Returned([g EXCEPT !.stream_end = "exhausted"],
                    IF g.full_response = << >> THEN TROUBLE_PLACEHOLDER
                    ELSE JoinWith(<< >>, g.full_response)) } \cup
         IF CanYield(g, r)
         THEN { IF HasDeltaContent(ev)
                THEN [g EXCEPT !.consumed = Append(@, ev),
                               !.full_response = Append(@, ev.content)]
                ELSE [g EXCEPT !.consumed = Append(@, ev)]
                : ev \in ModelEvents }
         ELSE {}

\* except Exception as e: yield the error envelope
OpenAIStreamExcept(g, r, message) ==
    [g EXCEPT !.pc = "closed", !.caught = TRUE,
              !.frames = Append(@, ErrorFrame(r, message, "server_error", 500))]

OpenAIStreamStart(g, r) ==
    { [g EXCEPT !.pc = "invoke", !.frames = Append(@, RoleChunk(r))] }

OpenAIStreamInvoke(g, r) ==
    { OpenAIStreamExcept(g, r, m) : m \in BackendErrors } \cup
    { [g EXCEPT !.pc = "loop", !.stream_kind = "iter",
                !.has_sent_content = FALSE, !.full_response = << >>,
                !.calls = Append(@, ModelCall(r.model, r.messages))] }

\* What one chunk of the stream makes the generator yield.
OpenAIChunkFrames(r, ev) ==
    (IF HasDeltaContent(ev) THEN <<ContentChunk(r, ev.content)>> ELSE << >>) \o
    (IF ev.has_choice /\ ev.finish_reason # Null
     THEN <<FinalChunk(r, ev.finish_reason)>> ELSE << >>)

\* One iteration of "for chunk in stream".
OpenAIStreamOnEvent(g, r, ev) ==
    [g EXCEPT !.consumed = Append(@, ev),
              !.frames = @ \o OpenAIChunkFrames(r, ev),
              !.full_response = IF HasDeltaContent(ev) THEN Append(@, ev.content)
                                ELSE @,
              !.has_sent_content = @ \/ HasDeltaContent(ev)]

OpenAIStreamLoop(g, r) ==
    { [g EXCEPT !.pc = "after_loop", !.stream_end = "exhausted"] } \cup
    { OpenAIStreamExcept([g EXCEPT !.stream_end = "raised"], r, m)
      : m \in BackendErrors } \cup
    IF CanYield(g, r)
    THEN { OpenAIStreamOnEvent(g, r, ev) : ev \in ModelEvents }
    ELSE {}

\* The yields after the loop: the placeholder and its final chunk when no
\* content was sent, then [DONE].
OpenAIStreamTail(g, r) ==
    CASE g.pc = "after_loop" /\ ~g.has_sent_content ->
            { [g EXCEPT !.pc = "final",
                        !.frames = Append(@, ContentChunk(r, MODEL_PLACEHOLDER)),
                        !.full_response = <<MODEL_PLACEHOLDER>>] }
      [] g.pc = "final" ->
            { [g EXCEPT !.pc = "done",
                        !.frames = Append(@, FinalChunk(r, "stop"))] }
      [] g.pc = "after_loop" \/ g.pc = "done" ->
            { [g EXCEPT !.pc = "closed", !.frames = Append(@, DoneFrame(r))] }
      [] OTHER -> {}

OpenAIGetResponseAction ==
    /\ op = "openai.get_response"
    /\ pc = "start"
    /\ \E g \in OpenAIGetResponse(Locals, request) : Become(g)

OpenAIProcessStreamAction ==
    /\ op = "openai._process_openai_stream"
    /\ pc = "loop"
    /\ \E g \in ProcessOpenAIStreamStep(Locals, request) : Become(g)

OpenAIStreamStartAction ==
    /\ op = "openai.get_streaming_response"
    /\ pc = "start"
    /\ \E g \in OpenAIStreamStart(Locals, request) : Become(g)

OpenAIStreamInvokeAction ==
    /\ op = "openai.get_streaming_response"
    /\ pc = "invoke"
    /\ \E g \in OpenAIStreamInvoke(Locals, request) : Become(g)

OpenAIStreamLoopAction ==
    /\ op = "openai.get_streaming_response"
    /\ pc = "loop"
    /\ \E g \in OpenAIStreamLoop(Locals, request) : Become(g)

OpenAIStreamTailAction ==
    /\ op = "openai.get_streaming_response"
    /\ pc \in {"after_loop", "final", "done"}
    /\ \E g \in OpenAIStreamTail(Locals, request) : Become(g)

-----------------------------------------------------------------------------
(* app.py: the aggregator, the generator and the handler *)

\* app.py hard-codes the model name.
APP_MODEL == "bedrock-agent"

AppRequest(r) == [r EXCEPT !.model = APP_MODEL]

\* data.get('session_id', f"session_{...}")
AppSession(r) == IF r.session_id = NoSession THEN FreshSession ELSE r.session_id

\* app.py 76-116 is the loop body of bedrock.py 75-117
AppDecodeSync(ev) == DecodeSync(ev)

\* app.py 252-296 is the loop body of bedrock.py 218-277
AppDecodeStream(ev) == DecodeStream(ev)

\* process_completion_stream, one iteration of its loop (or its end)
AppProcessCompletionStreamStep(g, r) ==
    IF g.stream_kind = "list"
    THEN { Returned(g, AGENT_PLACEHOLDER) }
    ELSE { Returned([g EXCEPT !.stream_end = "raised"], ERROR_PLACEHOLDER) } \cup
         { Returned([g EXCEPT !.stream_end = "exhausted"],
                    IF g.full_response = << >> THEN TROUBLE_PLACEHOLDER
                    ELSE JoinWith(<<" ">>, g.full_response)) } \cup
         IF CanYield(g, r)
         THEN { CASE AppDecodeSync(ev).kind = "fragment" ->
                       [g EXCEPT !.consumed = Append(@, ev),
                                 !.full_response = Append(@, AppDecodeSync(ev).text)]
                  [] AppDecodeSync(ev).kind = "raise" ->
                       Returned([g EXCEPT !.consumed = Append(@, ev),
                                          !.stream_end = "decode_raised"],
                                ERROR_PLACEHOLDER)
                  [] OTHER -> [g EXCEPT !.consumed = Append(@, ev)]
                : ev \in AgentEvents }
         ELSE {}

\* get_bedrock_response up to the call of process_completion_stream
AppGetResponseInvoke(g, r) ==
    IF NoLastMessage(r.messages)
    THEN { Returned(g, <<"Error: ">> \o NO_USER_MESSAGE) }
    ELSE { Returned(g, <<"Error: ">> \o m) : m \in BackendErrors } \cup
         { Returned([g EXCEPT !.clients = @ + 1], <<"Error: ">> \o m)
           : m \in BackendErrors } \cup
         { [g EXCEPT !.pc = "loop", !.stream_kind = k, !.clients = @ + 1,
                     !.calls = Append(@, AgentCall(FreshSession,
                                                   LastUserContent(r.messages)))]
           : k \in StreamKinds }

\* Mutant: after the error envelope the generator goes on with the frames
\* that follow the loop.
AppStreamExceptGoesOn(g, r, message) ==
    [g EXCEPT !.pc = "after_loop", !.caught = TRUE,
              !.frames = Append(@, ErrorFrame(AppRequest(r), message,
                                              "server_error", 500))]

\* except Exception as e: yield the error envelope
AppStreamExcept(g, r, message) ==
    [g EXCEPT !.pc = "closed", !.caught = TRUE,
              !.frames = Append(@, ErrorFrame(AppRequest(r), message,
                                              "server_error", 500))]

AppStreamStart(g, r) ==
    { [g EXCEPT !.pc = "invoke", !.frames = Append(@, RoleChunk(AppRequest(r)))] }

AppStreamInvoke(g, r) ==
    { AppStreamExcept(g, r, m) : m \in BackendErrors } \cup
    IF NoLastMessage(r.messages)
    THEN { [g EXCEPT !.pc = "closed", !.clients = @ + 1,
                     !.frames = Append(@, ErrorFrame(AppRequest(r), NO_USER_MESSAGE,
                                                     "invalid_request_error", 400))] }
    ELSE { AppStreamExcept([g EXCEPT !.clients = @ + 1], r, m)
           : m \in BackendErrors } \cup
         { [g EXCEPT !.pc = "loop", !.stream_kind = k, !.clients = @ + 1,
                     !.has_sent_content = FALSE,
                     !.calls = Append(@, AgentCall(AppSession(r),
                                                   LastUserContent(r.messages)))]
           : k \in StreamKinds }

\* One iteration of "for event in completion_stream".
AppStreamOnEvent(g, r, ev) ==
    IF AppDecodeStream(ev).kind = "fragment"
    THEN [g EXCEPT !.consumed = Append(@, ev),
                   !.frames = Append(@, ContentChunk(AppRequest(r),
                                                     AppDecodeStream(ev).text)),
                   !.has_sent_content = TRUE]
    ELSE [g EXCEPT !.consumed = Append(@, ev)]

AppStreamLoop(g, r) ==
    { [g EXCEPT !.pc = "after_loop", !.stream_end = "exhausted"] } \cup
    IF g.stream_kind = "iter"
    THEN { AppStreamExcept([g EXCEPT !.stream_end = "raised"], r, m)
           : m \in BackendErrors } \cup
         IF CanYield(g, r)
         THEN { AppStreamOnEvent(g, r, ev) : ev \in AgentEvents }
         ELSE {}
    ELSE {}

\* The yields after the loop: the placeholder, the final chunk, [DONE].
AppStreamTail(g, r) ==
    CASE g.pc = "after_loop" /\ ~g.has_sent_content ->
            { [g EXCEPT !.pc = "final",
                        !.frames = Append(@, ContentChunk(AppRequest(r),
                                                          AGENT_PLACEHOLDER))] }
      [] g.pc = "after_loop" \/ g.pc = "final" ->
            { [g EXCEPT !.pc = "done",
                        !.frames = Append(@, FinalChunk(AppRequest(r), "stop"))] }
      [] g.pc = "done" ->
            { [g EXCEPT !.pc = "closed",
                        !.frames = Append(@, DoneFrame(AppRequest(r)))] }
      [] OTHER -> {}

\* return jsonify({"error": ...}), status
HttpError(g, status, message) ==
    [g EXCEPT !.pc = "returned",
              !.result = [NoResult EXCEPT !.kind = "return", !.status = status,
                                          !.body = "error", !.error = message]]

\* Mutant: the usage block counts the characters of the response text.
CreateChatCompletionResponseCounts(response_text, model) ==
    [ object |-> "chat.completion", model |-> model,
      choices |-> << [ index |-> 0, role |-> "assistant",
                       content |-> response_text, finish_reason |-> "stop" ] >>,
      usage |-> [ prompt_tokens |-> -1, completion_tokens |-> Len(response_text),
                  total_tokens |-> Len(response_text) - 1 ] ]

\* create_chat_completion_response (id and created, a fresh uuid and the
\* clock, are left out)
CreateChatCompletionResponse(response_text, model) ==
    [ object |-> "chat.completion", model |-> model,
      choices |-> << [ index |-> 0, role |-> "assistant",
                       content |-> response_text, finish_reason |-> "stop" ] >>,
      usage |-> [ prompt_tokens |-> -1, completion_tokens |-> -1,
                  total_tokens |-> -1 ] ]

\* jsonify(create_chat_completion_response(response_text, "bedrock-agent"))
HttpCompletion(g) ==
    IF g.pc # "returned" THEN g
    ELSE [g EXCEPT !.result =
             [@ EXCEPT !.status = 200, !.body = "completion",
                       !.envelope = CreateChatCompletionResponse(g.result.content,
                                                                 APP_MODEL)]]

\* Mutant: the client is created before the messages are looked at.
HttpValidateAfterClient(g, r) ==
    IF NoLastMessage(r.messages)
    THEN { HttpError([g EXCEPT !.clients = @ + 1], 400, NO_USER_MESSAGE) }
    ELSE { HttpError(g, 500, m) : m \in BackendErrors } \cup
         { [g EXCEPT !.pc = "handler_invoke", !.clients = @ + 1] }

\* chat_completions up to get_bedrock_client()
HttpValidate(g, r) ==
    IF NoLastMessage(r.messages)
    THEN { HttpError(g, 400, NO_USER_MESSAGE) }
    ELSE { HttpError(g, 500, m) : m \in BackendErrors } \cup
         { [g EXCEPT !.pc = "handler_invoke", !.clients = @ + 1] }

\* chat_completions: client.invoke_agent(...) and the dispatch on stream
HttpInvoke(g, r) ==
    { HttpError(g, 500, <<"Error processing response: ">> \o m)
      : m \in BackendErrors } \cup
    { LET called == [g EXCEPT !.stream_kind = k,
                              !.calls = Append(@, AgentCall(AppSession(r),
                                                   LastUserContent(r.messages)))]
      IN IF r.stream
         THEN [called EXCEPT !.pc = "start",
                 !.result = [NoResult EXCEPT !.kind = "return", !.status = 200,
                                             !.body = "event-stream"]]
         ELSE [called EXCEPT !.pc = "aggregate"]
      : k \in StreamKinds }

\* Mutant: a failure while aggregating the events answers 500.
HttpAggregateFails(g, r) ==
    { IF x.pc = "returned" /\ x.result.content = ERROR_PLACEHOLDER
      THEN HttpError(x, 500, <<"Error processing response: ">>)
      ELSE HttpCompletion(x)
      : x \in AppProcessCompletionStreamStep(g, r) }

\* chat_completions: process_completion_stream and the completion envelope
HttpAggregate(g, r) ==
    { HttpCompletion(x) : x \in AppProcessCompletionStreamStep(g, r) }

AppGenerator ==
    \/ op = "app.stream_chat_completion"
    \/ op = "app.chat_completions"

AppGetResponseInvokeAction ==
    /\ op = "app.get_bedrock_response"
    /\ pc = "start"
    /\ \E g \in AppGetResponseInvoke(Locals, request) : Become(g)

AppGetResponseLoopAction ==
    /\ op = "app.get_bedrock_response"
    /\ pc = "loop"
    /\ \E g \in AppProcessCompletionStreamStep(Locals, request) : Become(g)

AppStreamStartAction ==
    /\ AppGenerator
    /\ pc = "start"
    /\ \E g \in AppStreamStart(Locals, request) : Become(g)

AppStreamInvokeAction ==
    /\ AppGenerator
    /\ pc = "invoke"
    /\ \E g \in AppStreamInvoke(Locals, request) : Become(g)

AppStreamLoopAction ==
    /\ AppGenerator
    /\ pc = "loop"
    /\ \E g \in AppStreamLoop(Locals, request) : Become(g)

AppStreamTailAction ==
    /\ AppGenerator
    /\ pc \in {"after_loop", "final", "done"}
    /\ \E g \in AppStreamTail(Locals, request) : Become(g)

HttpValidateAction ==
    /\ op = "app.chat_completions"
    /\ pc = "handler"
    /\ \E g \in HttpValidate(Locals, request) : Become(g)

HttpInvokeAction ==
    /\ op = "app.chat_completions"
    /\ pc = "handler_invoke"
    /\ \E g \in HttpInvoke(Locals, request) : Become(g)

HttpAggregateAction ==
    /\ op = "app.chat_completions"
    /\ pc = "aggregate"
    /\ \E g \in HttpAggregate(Locals, request) : Become(g)

-----------------------------------------------------------------------------
(* Initial states *)

Sessions == {NoSession, "s1"}

InitLocals ==
    /\ consumed = << >>
    /\ frames = << >>
    /\ has_sent_content = FALSE
    /\ full_response = << >>
    /\ calls = << >>
    /\ clients = 0
    /\ constructed = << >>
    /\ avail_checked = << >>
    /\ caught = FALSE
    /\ result = NoResult
    /\ stream_end = "none"
    /\ outputs = << >>

\* get_provider(provider_name) in some environment
InitGetProvider ==
    /\ op = "get_provider"
    /\ pc = "start"
    /\ stream_kind = "none"
    /\ \E n \in ProviderNames : request = Request(<< >>, NoSession, FALSE, n, "")
    /\ environ \in Environments

\* An adapter method: messages (and completion_id, created, model).  The
\* request an agent-style adapter serves may carry a session_id; the method
\* has no parameter for it.
InitAdapterCall ==
    /\ op \in {"bedrock.get_streaming_response", "bedrock.get_response",
               "openai.get_streaming_response", "openai.get_response",
               "app.get_bedrock_response"}
    /\ pc = "start"
    /\ stream_kind = "none"
    /\ \E m \in MessageLists, s \in Sessions :
          /\ op \notin {"bedrock.get_streaming_response", "bedrock.get_response"}
                => s = NoSession
          /\ request = Request(m, s, FALSE, NoName, "m1")
    /\ environ = DefaultEnviron

\* _process_openai_stream(stream)
InitProcessStream ==
    /\ op = "openai._process_openai_stream"
    /\ pc = "loop"
    /\ stream_kind \in StreamKinds
    /\ request = Request(<< >>, NoSession, FALSE, NoName, "")
    /\ environ = DefaultEnviron

\* stream_chat_completion(data) and POST /v1/chat/completions with body data
InitAppCall ==
    /\ \/ op = "app.stream_chat_completion" /\ pc = "start"
       \/ op = "app.chat_completions" /\ pc = "handler"
    /\ stream_kind = "none"
    /\ \E m \in MessageLists, s \in Sessions, st \in BOOLEAN :
          /\ op = "app.stream_chat_completion" => st
          /\ request = Request(m, s, st, NoName, APP_MODEL)
    /\ environ = DefaultEnviron

Init ==
    /\ InitLocals
    /\ served = << >>
    /\ backend_log = << >>
    /\ \/ InitGetProvider
       \/ InitAdapterCall
       \/ InitProcessStream
       \/ InitAppCall

Next ==
    \/ GetProvider
    \/ BedrockStreamStartAction
    \/ BedrockStreamInvokeAction
    \/ BedrockStreamLoopAction
    \/ BedrockStreamTailAction
    \/ BedrockGetResponseInvokeAction
    \/ BedrockGetResponseLoopAction
    \/ OpenAIGetResponseAction
    \/ OpenAIProcessStreamAction
    \/ OpenAIStreamStartAction
    \/ OpenAIStreamInvokeAction
    \/ OpenAIStreamLoopAction
    \/ OpenAIStreamTailAction
    \/ AppGetResponseInvokeAction
    \/ AppGetResponseLoopAction
    \/ AppStreamStartAction
    \/ AppStreamInvokeAction
    \/ AppStreamLoopAction
    \/ AppStreamTailAction
    \/ HttpValidateAction
    \/ HttpInvokeAction
    \/ HttpAggregateAction

Spec == Init /\ [][Next]_vars

-----------------------------------------------------------------------------
(* Two streaming requests handled concurrently.  Each request has its own   *)
(* generator; the server resumes either one, one step at a time, in any     *)
(* order.  Both use the same backend client.                                *)

PairOps == {"bedrock.get_streaming_response", "app.stream_chat_completion"}

\* The backend events of the concurrent runs.
PairEvents ==
    { TraceEvent("final", <<"a">>),
      ChunkEvent("utf8", "object", JsonSource, <<"b", " ">>) }

FirstRequest ==
    Request(<<Msg("user", <<"a">>)>>, NoSession, TRUE, NoName, "m1")

SecondRequests ==
    { [Request(m, s, TRUE, NoName, "m2")
          EXCEPT !.completion_id = "chatcmpl-2", !.created = 2]
      : m \in {<<Msg("user", <<"b">>)>>, <<Msg("system", <<"b">>)>>},
        s \in Sessions }

\* The locals of a generator that has not run yet.
FreshLocals ==
    [ pc |-> "start", stream_kind |-> "none", consumed |-> << >>,
      frames |-> << >>, has_sent_content |-> FALSE, full_response |-> << >>,
      calls |-> << >>, clients |-> 0, caught |-> FALSE, result |-> NoResult,
      stream_end |-> "none" ]

Serving(o, r) == [ op |-> o, request |-> r, locals |-> FreshLocals ]

\* The next step of a generator, from where it was suspended.
GeneratorStep(o, g, r) ==
    IF o = "bedrock.get_streaming_response"
    THEN CASE g.pc = "start" -> BedrockStreamStart(g, r)
           [] g.pc = "invoke" -> BedrockStreamInvoke(g, r)
           [] g.pc = "loop" -> BedrockStreamLoop(g, r)
           [] OTHER -> BedrockStreamTail(g, r)
    ELSE CASE g.pc = "start" -> AppStreamStart(g, r)
           [] g.pc = "invoke" -> AppStreamInvoke(g, r)
           [] g.pc = "loop" -> AppStreamLoop(g, r)
           [] OTHER -> AppStreamTail(g, r)

\* Mutant: has_sent_content is kept where every generator sees it.
PairResumeSharedFlag(s, i, g) ==
    [ j \in 1..Len(s) |->
        IF j = i THEN [s[j] EXCEPT !.locals = g]
        ELSE [s[j] EXCEPT !.locals.has_sent_content = g.has_sent_content] ]

\* Resuming one generator changes its own frame only: completion_id, created,
\* model, has_sent_content and the event iterator are locals of the call.
PairResume(s, i, g) == [s EXCEPT ![i].locals = g]

PairStep(i) ==
    /\ op = "pair"
    /\ \E g \in GeneratorStep(served[i].op, served[i].locals, served[i].request) :
          /\ \A k \in 1..Len(g.consumed) : g.consumed[k] \in PairEvents
          /\ served' = PairResume(served, i, g)
          /\ backend_log' = backend_log \o
                SubSeq(g.calls, Len(served[i].locals.calls) + 1, Len(g.calls))
    /\ UNCHANGED << op, pc, request, environ, stream_kind, consumed, frames,
                    has_sent_content, full_response, calls, clients, constructed,
                    avail_checked, caught, result, stream_end, outputs >>

ServeFirst == PairStep(1)

ServeSecond == PairStep(2)

InitPair ==
    /\ InitLocals
    /\ op = "pair"
    /\ pc = "pair"
    /\ stream_kind = "none"
    /\ request = FirstRequest
    /\ environ = DefaultEnviron
    /\ backend_log = << >>
    /\ \E o1 \in PairOps, o2 \in PairOps, r2 \in SecondRequests :
          served = <<Serving(o1, FirstRequest), Serving(o2, r2)>>

NextPair == ServeFirst \/ ServeSecond

SpecPair == InitPair /\ [][NextPair]_vars

-----------------------------------------------------------------------------
(* Vocabulary of the properties *)

StreamOps == {"bedrock.get_streaming_response", "openai.get_streaming_response",
              "app.stream_chat_completion"}

SyncOps == {"bedrock.get_response", "openai.get_response",
            "app.get_bedrock_response"}

\* A generator is running or has run: called directly, or as the body of the
\* handler's streaming response.
Streaming ==
    \/ op \in StreamOps
    \/ op = "app.chat_completions" /\ result.body = "event-stream"

IsRoleChunk(f) == f.kind = "chunk" /\ f.delta = "role" /\ f.finish_reason = Null

IsContentChunk(f) == f.kind = "chunk" /\ f.delta = "content" /\ f.finish_reason = Null

IsTerminalChunk(f) == f.kind = "chunk" /\ f.delta = "empty" /\ f.finish_reason # Null

IsDone(f) == f.kind = "done"

IsError(f) == f.kind = "error"

IsClosing(f) == IsDone(f) \/ IsError(f)

ProviderPlaceholder ==
    IF op = "openai.get_streaming_response" THEN MODEL_PLACEHOLDER
    ELSE AGENT_PLACEHOLDER

IsPlaceholderChunk(f) == IsContentChunk(f) /\ f.content = ProviderPlaceholder

\* A content chunk made from a backend event (no backend event of the model
\* carries a placeholder text).
IsBackendContentChunk(f) ==
    IsContentChunk(f) /\ f.content \notin {AGENT_PLACEHOLDER, MODEL_PLACEHOLDER}

FrameIdx(P(_)) == {i \in 1..Len(frames) : P(frames[i])}

\* The stream ran to [DONE].
Completed == Streaming /\ pc = "closed" /\ frames # << >> /\ IsDone(Last(frames))

\* The finish reasons the model-style backend reported.
ReportedReasons ==
    IF op = "openai.get_streaming_response"
    THEN {consumed[i].finish_reason : i \in {j \in 1..Len(consumed) :
              consumed[j].has_choice /\ consumed[j].finish_reason # Null}}
    ELSE {}

-----------------------------------------------------------------------------
(* C1..C5: the SSE frame sequence *)

\* C1: every streaming response that runs to [DONE] starts with the role-delta
\* chunk, ends with a chunk with a non-null finish_reason immediately followed
\* by [DONE], and has a content-delta chunk with non-empty content in between.
C1_FrameShape ==
    Completed =>
        /\ Len(frames) >= 4
        /\ IsRoleChunk(frames[1])
        /\ IsTerminalChunk(frames[Len(frames) - 1])
        /\ \E i \in 2..(Len(frames) - 2) :
              IsContentChunk(frames[i]) /\ Truthy(frames[i].content)

\* C2: a streaming response that reaches [DONE] holds exactly one terminal
\* chunk (empty delta, non-null finish_reason), whose finish_reason is the
\* backend-reported one when the backend reported one and "stop" otherwise.
C2_ExactlyOneTerminalChunk ==
    Completed =>
        /\ Cardinality(FrameIdx(IsTerminalChunk)) = 1
        /\ \A i \in FrameIdx(IsTerminalChunk) :
              frames[i].finish_reason \in
                  (IF ReportedReasons = {} THEN {"stop"} ELSE ReportedReasons)

\* C3: a streaming response is finite and ends with exactly one closing frame,
\* [DONE] or an error envelope, never both: a closing frame is the last frame
\* and the generator is closed once it is out (so nothing follows it and [DONE]
\* appears at most once); a closed generator ends with one; the frames are
\* bounded by the backend events; and an open generator can always go on.
C3_OneClosingFrame ==
    Streaming =>
        /\ \A i \in FrameIdx(IsClosing) : i = Len(frames) /\ pc = "closed"
        /\ pc = "closed" => frames # << >> /\ IsClosing(Last(frames))
        /\ Len(frames) <= 2 * Len(consumed) + 4
        /\ pc = "closed" \/ ENABLED Next

C3_Witness ==
    /\ Completed
    /\ Cardinality(FrameIdx(IsBackendContentChunk)) >= 2

\* C4: in a streaming response that completes without exception the placeholder
\* chunk is emitted iff no content chunk came from backend events, carries the
\* provider's placeholder, is emitted once, and comes before the terminal
\* finish_reason chunk.
C4_PlaceholderIffNoContent ==
    Completed =>
        /\ (FrameIdx(IsPlaceholderChunk) # {}) <=> (FrameIdx(IsBackendContentChunk) = {})
        /\ Cardinality(FrameIdx(IsPlaceholderChunk)) <= 1
        /\ \A i \in FrameIdx(IsContentChunk) :
              IsBackendContentChunk(frames[i]) \/ IsPlaceholderChunk(frames[i])
        /\ \A i \in FrameIdx(IsPlaceholderChunk), j \in FrameIdx(IsTerminalChunk) : i < j

\* C5: when the backend invocation or the iteration over the event stream
\* raises, the generator does not propagate: it closes with exactly one error
\* frame {message, type "server_error", code 500} as its final frame, and no
\* [DONE] (nor anything else) follows the failure.
C5_ErrorEnvelopeIsFinal ==
    Streaming /\ caught =>
        /\ pc = "closed"
        /\ result.kind # "raise"
        /\ frames # << >>
        /\ IsError(Last(frames))
        /\ Last(frames).type = "server_error"
        /\ Last(frames).code = 500
        /\ Last(frames).message \in BackendErrors \cup {NO_USER_MESSAGE}
        /\ FrameIdx(IsError) = {Len(frames)}
        /\ FrameIdx(IsDone) = {}
        /\ IsRoleChunk(frames[1])

\* The stream failed after content chunks and a terminal chunk were out.
C5_Witness ==
    /\ Streaming
    /\ caught
    /\ FrameIdx(IsBackendContentChunk) # {}
    /\ FrameIdx(IsTerminalChunk) # {}


-----------------------------------------------------------------------------
(* C6..C8: the handler and the synchronous adapters *)

Handler == op = "app.chat_completions"

\* C6: a request to POST /v1/chat/completions without a user-role message is
\* answered 400 with a JSON error body, and until then no backend client is
\* created and no backend invocation is made.
C6_NoUserMessageIs400 ==
    Handler /\ ~HasUser(request.messages) =>
        /\ clients = 0
        /\ calls = << >>
        /\ frames = << >>
        /\ pc \in {"handler", "returned"}
        /\ pc = "returned" =>
              /\ result.kind = "return"
              /\ result.status = 400
              /\ result.body = "error"
              /\ result.error = NO_USER_MESSAGE

C6_Witness ==
    /\ Handler
    /\ request.messages # << >>
    /\ ~HasUser(request.messages)
    /\ request.stream
    /\ pc = "returned"

AgentStyle == op \in {"bedrock.get_response", "app.get_bedrock_response"}

\* C8: the synchronous get_response never raises: it returns {content: ...};
\* when no invocation returned, the content is "Error: " followed by the
\* error message (the missing user message of the agent-style adapter
\* included), and the agent-style content is always a non-empty text.
C8_GetResponseNeverRaises ==
    op \in SyncOps =>
        /\ result.kind # "raise"
        /\ pc = "returned" \/ ENABLED Next
        /\ pc = "returned" =>
              /\ result.kind = "return"
              /\ calls = << >> =>
                    /\ ~result.content_none
                    /\ result.content \in
                          (IF AgentStyle /\ NoLastMessage(request.messages)
                           THEN {<<"Error: ">> \o NO_USER_MESSAGE}
                           ELSE {<<"Error: ">> \o m : m \in BackendErrors})
              /\ AgentStyle => ~result.content_none /\ Truthy(result.content)

C8_Witness ==
    /\ op = "bedrock.get_response"
    /\ pc = "returned"
    /\ HasUser(request.messages)
    /\ result.content = <<"Error: ", "boom">>

-----------------------------------------------------------------------------
(* C9, C10: the resolver *)

Resolving == op = "get_provider" /\ pc = "returned"

ExplicitName == Lower(request.provider_name)

\* C9: get_provider with an explicit name whose lower-cased form is not a
\* known provider fails with the unknown-provider error, and constructs no
\* adapter, checks no availability and calls no backend.
C9_UnknownProvider ==
    Resolving /\ NameGiven(request.provider_name)
              /\ ExplicitName \notin KnownProviders =>
        /\ result.kind = "raise"
        /\ result.error = <<"Unknown provider">>
        /\ constructed = << >>
        /\ avail_checked = << >>
        /\ calls = << >>
        /\ clients = 0

\* An unknown name while both providers are available.
C9_Witness ==
    /\ Resolving
    /\ request.provider_name = "unknownx"
    /\ BedrockIsAvailable(environ)
    /\ OpenAIIsAvailable(environ)
    /\ environ.ctor_fails = {}

\* C10: get_provider with an explicit known name whose adapter reports
\* is_available() false fails with the provider-unavailable error and touches
\* no other provider; every adapter get_provider returns is available.
C10_UnavailableNeverFallsBack ==
    Resolving =>
        /\ result.kind = "return" =>
              /\ result.provider \in KnownProviders
              /\ IsAvailable(result.provider, environ)
              /\ NameGiven(request.provider_name) => result.provider = ExplicitName
        /\ ( /\ NameGiven(request.provider_name)
             /\ ExplicitName \in KnownProviders
             /\ ExplicitName \notin environ.ctor_fails
             /\ ~IsAvailable(ExplicitName, environ) ) =>
              /\ result.kind = "raise"
              /\ result.error = <<"Provider is not available">>
              /\ constructed = <<ExplicitName>>
              /\ avail_checked = <<ExplicitName>>

\* The named provider is unavailable while the other one is available.
C10_Witness ==
    /\ Resolving
    /\ request.provider_name = "Bedrock"
    /\ ~BedrockIsAvailable(environ)
    /\ OpenAIIsAvailable(environ)
    /\ environ.ctor_fails = {}

-----------------------------------------------------------------------------
(* C11 *)

\* The adapter can be constructed and reports is_available() true.
Usable(p) == p \notin environ.ctor_fails /\ IsAvailable(p, environ)

\* The adapter's constructor returns.
Constructible(p) == p \notin environ.ctor_fails

IsPrefix(s, t) == Len(s) <= Len(t) /\ s = SubSeq(t, 1, Len(s))

\* C11: get_provider without a name probes bedrock, then openai, and returns
\* the first one that is available: bedrock whenever it is, openai only when
\* bedrock is not; it raises the no-provider-available error exactly when
\* neither is.
C11_ProbeOrder ==
    Resolving /\ ~NameGiven(request.provider_name) =>
        /\ IsPrefix(constructed, ProviderOrder)
        /\ avail_checked = SelectSeq(constructed, Constructible)
        /\ Usable("bedrock") =>
              /\ result.kind = "return"
              /\ result.provider = "bedrock"
              /\ constructed = <<"bedrock">>
        /\ ~Usable("bedrock") /\ Usable("openai") =>
              /\ result.kind = "return"
              /\ result.provider = "openai"
              /\ constructed = ProviderOrder
        /\ (result.kind = "raise") <=> (~Usable("bedrock") /\ ~Usable("openai"))
        /\ result.kind = "raise" => result.error = <<"No provider is available">>

\* No name, both adapters available: the agent-style one is returned.
C11_Witness ==
    /\ Resolving
    /\ request.provider_name = NoName
    /\ Usable("bedrock")
    /\ Usable("openai")
    /\ result.provider = "bedrock"

\* No name, only the model-style adapter available.
C11_WitnessSecond ==
    /\ Resolving
    /\ request.provider_name = NoName
    /\ ~BedrockIsAvailable(environ)
    /\ result.provider = "openai"

-----------------------------------------------------------------------------
(* C12 *)

\* The agent-style aggregator has returned: inside get_response, inside
\* get_bedrock_response, or inside the handler of a non-streaming request.
AgentAggregated ==
    /\ op \in {"bedrock.get_response", "app.get_bedrock_response",
               "app.chat_completions"}
    /\ pc = "returned"
    /\ stream_kind # "none"

\* The loop was not left by an exception.
EndedQuietly == stream_end \in {"none", "exhausted"}

-----------------------------------------------------------------------------
(* C13 *)

\* The fragments a sequence of agent events decodes to, in emission order.
RECURSIVE AgentFragments(_)
AgentFragments(evs) ==
    IF evs = << >> THEN << >>
    ELSE (IF DecodeSync(Head(evs)).kind = "fragment"
          THEN <<DecodeSync(Head(evs)).text>> ELSE << >>)
         \o AgentFragments(Tail(evs))

\* The delta contents a sequence of model chunks carries, in emission order.
RECURSIVE ModelFragments(_)
ModelFragments(evs) ==
    IF evs = << >> THEN << >>
    ELSE (IF HasDeltaContent(Head(evs)) THEN <<Head(evs).content>> ELSE << >>)
         \o ModelFragments(Tail(evs))

ModelAggregated ==
    op = "openai._process_openai_stream" /\ pc = "returned" /\ stream_kind = "iter"

\* C13: when the events of a stream that ran to its end decode to at least
\* one fragment, the agent-style aggregator returns the fragments in emission
\* order separated by exactly one space and the model-style aggregator returns
\* them in emission order with nothing in between; no fragment is dropped,
\* duplicated or reordered.
C13_JoinInOrder ==
    /\ AgentAggregated /\ stream_end = "exhausted"
                       /\ AgentFragments(consumed) # << >> =>
          /\ full_response = AgentFragments(consumed)
          /\ result.content = JoinWith(<<" ">>, AgentFragments(consumed))
          /\ consumed = <<Event("text", "", "", <<"a">>, << >>),
                          Event("content", "", "", << >>, <<"b">>)>> =>
                result.content = <<"a", " ", "b">>
    /\ ModelAggregated /\ stream_end = "exhausted"
                       /\ ModelFragments(consumed) # << >> =>
          /\ full_response = ModelFragments(consumed)
          /\ result.content = JoinWith(<< >>, ModelFragments(consumed))
          /\ consumed = <<ModelEvent(TRUE, FALSE, <<"a">>, Null),
                          ModelEvent(TRUE, FALSE, <<"b">>, "stop")>> =>
                result.content = <<"a", "b">>

\* Two different fragments, then the end of the stream.
C13_Witness ==
    /\ AgentAggregated
    /\ stream_end = "exhausted"
    /\ Len(AgentFragments(consumed)) = 2
    /\ AgentFragments(consumed)[1] # AgentFragments(consumed)[2]
    /\ result.content = AgentFragments(consumed)[1] \o <<" ">>
                        \o AgentFragments(consumed)[2]

C13_WitnessModel ==
    /\ ModelAggregated
    /\ stream_end = "exhausted"
    /\ Len(ModelFragments(consumed)) = 2
    /\ ModelFragments(consumed)[1] # ModelFragments(consumed)[2]
    /\ result.content = ModelFragments(consumed)[1] \o ModelFragments(consumed)[2]

-----------------------------------------------------------------------------
(* C14 *)

\* The entry points that read the agent's event stream.
AgentSyncRun ==
    \/ op \in {"bedrock.get_response", "app.get_bedrock_response"}
    \/ op = "app.chat_completions" /\ ~request.stream

AgentStreamRun ==
    \/ op \in {"bedrock.get_streaming_response", "app.stream_chat_completion"}
    \/ op = "app.chat_completions" /\ request.stream

\* A byte chunk whose bytes decode as UTF-8 to non-blank text that
\* json.loads rejects.
IsRawTextChunk(ev) ==
    /\ ev.shape = "chunk"
    /\ ev.enc = "utf8"
    /\ ev.json = "invalid"
    /\ Truthy(Strip(ev.text))

RawTextIdx == {i \in 1..Len(consumed) : IsRawTextChunk(consumed[i])}

\* C14: a byte chunk whose decoded payload is non-blank text that is not
\* valid JSON is never dropped: the synchronous loop appends that text as one
\* fragment, and the streaming loop yields one content-delta chunk carrying it
\* (trimmed), and neither loop is left.
C14_RawTextIsAFragment ==
    /\ AgentSyncRun =>
          \A i \in RawTextIdx :
              /\ outputs[i].fragments = <<consumed[i].text>>
              /\ ~outputs[i].raised
    /\ AgentStreamRun =>
          \A i \in RawTextIdx :
              /\ Len(outputs[i].frames) = 1
              /\ IsContentChunk(outputs[i].frames[1])
              /\ outputs[i].frames[1].content = Strip(consumed[i].text)
              /\ Truthy(outputs[i].frames[1].content)

\* The streaming loop has pulled such a chunk after another event.
C14_Witness ==
    /\ op = "bedrock.get_streaming_response"
    /\ Len(consumed) = 2
    /\ IsRawTextChunk(consumed[2])
    /\ IsContentChunk(Last(frames))

\* The synchronous loop has pulled such a chunk.
C14_WitnessSync ==
    /\ op = "bedrock.get_response"
    /\ RawTextIdx # {}
    /\ full_response # << >>

-----------------------------------------------------------------------------
(* C15 *)

\* C15: decoding is deterministic and stateless per event: whenever the same
\* backend event is pulled in two positions of a stream (the first position,
\* with nothing decoded before it, included), the loop produces the same
\* fragment or chunks, or the same absence of them, both times.
C15_SameEventSameOutput ==
    /\ Len(outputs) = Len(consumed)
    /\ \A i, j \in 1..Len(consumed) :
          consumed[i] = consumed[j] => outputs[i] = outputs[j]

\* The streaming loop has pulled the same fragment-bearing event first and
\* again after it has sent content.
C15_Witness ==
    /\ AgentStreamRun
    /\ Len(consumed) = 2
    /\ consumed[1] = consumed[2]
    /\ outputs[1].frames # << >>
    /\ has_sent_content

\* The model-style loop has pulled the same chunk before and after another.
C15_WitnessOthers ==
    /\ op = "openai.get_streaming_response"
    /\ Len(consumed) = 3
    /\ consumed[1] = consumed[3]
    /\ consumed[1] # consumed[2]
    /\ outputs[1] # outputs[2]

-----------------------------------------------------------------------------
(* C16 *)

\* The handler answered with a non-streaming completion envelope.
Enveloped == Handler /\ pc = "returned" /\ result.body = "completion"

\* C16: every non-streaming completion envelope has object "chat.completion",
\* exactly one choice with index 0, role "assistant" and finish_reason "stop",
\* and usage.prompt_tokens = usage.completion_tokens = usage.total_tokens = -1,
\* whatever the response text is (placeholder and error texts included); no
\* other result carries an envelope.
C16_EnvelopeShape ==
    /\ Enveloped =>
          /\ result.status = 200
          /\ result.envelope.object = "chat.completion"
          /\ Len(result.envelope.choices) = 1
          /\ result.envelope.choices[1].index = 0
          /\ result.envelope.choices[1].role = "assistant"
          /\ result.envelope.choices[1].finish_reason = "stop"
          /\ result.envelope.choices[1].content = result.content
          /\ result.envelope.usage.prompt_tokens = -1
          /\ result.envelope.usage.completion_tokens = -1
          /\ result.envelope.usage.total_tokens = -1
    /\ ~Enveloped => result.envelope = NoEnvelope

\* An envelope whose text is the error placeholder, after a fragment.
C16_Witness ==
    /\ Enveloped
    /\ result.content = ERROR_PLACEHOLDER
    /\ full_response # << >>

\* An envelope whose text is two joined fragments.
C16_WitnessText ==
    /\ Enveloped
    /\ Len(full_response) = 2
    /\ result.envelope.choices[1].content = JoinWith(<<" ">>, full_response)

-----------------------------------------------------------------------------
(* C17 *)

\* The events whose decoding raised an exception that left the loop.
AbortingIdx == {i \in 1..Len(outputs) : outputs[i].raised}

\* C17: an exception raised while decoding one backend event never aborts the
\* processing of the remaining events: in the synchronous and in the
\* streaming path no iteration's exception leaves the loop, and a call whose
\* stream did not itself fail has read the stream to its end.
C17_DecodeErrorNeverAborts ==
    AgentSyncRun \/ AgentStreamRun =>
        /\ AbortingIdx = {}
        /\ stream_end # "decode_raised"
        /\ AgentAggregated /\ stream_kind = "iter" =>
              stream_end \in {"exhausted", "raised"}

-----------------------------------------------------------------------------
(* C18 *)

\* An exception left the aggregator's loop.
EndedByException == stream_end \in {"raised", "decode_raised"}

\* C18: in the synchronous aggregator, when an exception occurs after at
\* least one fragment has been captured, the returned text is the join of the
\* fragments captured before the failure; the generic error placeholder is
\* returned only when no fragment had been captured.
C18_PartialResultKept ==
    /\ AgentAggregated /\ EndedByException =>
          /\ full_response # << >> =>
                result.content = JoinWith(<<" ">>, full_response)
          /\ result.content = ERROR_PLACEHOLDER => full_response = << >>
    /\ ModelAggregated /\ EndedByException =>
          /\ full_response # << >> =>
                result.content = JoinWith(<< >>, full_response)
          /\ result.content = ERROR_PLACEHOLDER => full_response = << >>

-----------------------------------------------------------------------------
(* C19 *)

\* The texts of the content-delta chunks made from backend events, in order.
RECURSIVE ContentTexts(_)
ContentTexts(fs) ==
    IF fs = << >> THEN << >>
    ELSE (IF IsBackendContentChunk(Head(fs)) THEN <<Head(fs).content>> ELSE << >>)
         \o ContentTexts(Tail(fs))

\* A byte chunk whose bytes decode as UTF-8.
IsUtf8Chunk(ev) == ev.shape = "chunk" /\ ev.enc = "utf8"

\* The fragments the synchronous loop collects from the UTF-8 byte chunks of
\* a sequence of events, each one trimmed.
RECURSIVE TrimmedChunkFragments(_)
TrimmedChunkFragments(evs) ==
    IF evs = << >> THEN << >>
    ELSE (IF IsUtf8Chunk(Head(evs)) /\ DecodeSync(Head(evs)).kind = "fragment"
          THEN <<Strip(DecodeSync(Head(evs)).text)>> ELSE << >>)
         \o TrimmedChunkFragments(Tail(evs))

-----------------------------------------------------------------------------
(* C20 *)

ModelStreamRun == op = "openai.get_streaming_response"

\* The pulled chunks that carry a finish_reason.
FinishIdx ==
    {i \in 1..Len(consumed) :
        consumed[i].has_choice /\ consumed[i].finish_reason # Null}

\* C20: in the model-style streaming path, once a backend chunk carrying a
\* finish_reason has been pulled no later backend chunk makes a content-delta
\* chunk, so no backend content follows the terminal chunk; and the
\* content-delta chunks carry the backend's delta contents verbatim
\* (untrimmed, whitespace-only tokens included).
C20_NoContentAfterFinish ==
    ModelStreamRun =>
        /\ \A i \in FinishIdx : \A j \in (i + 1)..Len(consumed) :
              \A k \in 1..Len(outputs[j].frames) :
                  ~IsContentChunk(outputs[j].frames[k])
        /\ \A i, j \in 1..Len(frames) :
              i < j /\ IsTerminalChunk(frames[i]) => ~IsBackendContentChunk(frames[j])
        /\ ContentTexts(frames) = ModelFragments(consumed)

-----------------------------------------------------------------------------
(* C21 *)

AdapterStreamRun ==
    op \in {"bedrock.get_streaming_response", "openai.get_streaming_response"}

\* C21: in both adapters' get_streaming_response the role-delta chunk is
\* yielded before the backend call is dispatched: whenever the call has been
\* made, or has failed, the first frame is the role chunk, and a failed
\* invocation (or a missing user message in the agent-style adapter) leaves
\* exactly the frames [role-delta chunk, error envelope].
C21_RoleBeforeInvoke ==
    AdapterStreamRun =>
        /\ pc # "start" /\ pc # "invoke" =>
              /\ frames # << >>
              /\ IsRoleChunk(frames[1])
        /\ pc = "invoke" => frames = <<RoleChunk(request)>> /\ calls = << >>
        /\ pc = "closed" /\ calls = << >> =>
              /\ Len(frames) = 2
              /\ IsRoleChunk(frames[1])
              /\ IsError(frames[2])
              /\ ( op = "bedrock.get_streaming_response"
                   /\ NoLastMessage(request.messages) ) =>
                    frames[2].message = NO_USER_MESSAGE

\* The agent-style generator closed on a request without a user message.
C21_Witness ==
    /\ op = "bedrock.get_streaming_response"
    /\ ~HasUser(request.messages)
    /\ pc = "closed"
    /\ frames = <<RoleChunk(request),
                  ErrorFrame(request, NO_USER_MESSAGE, "server_error", 500)>>

\* The model-style generator closed after its invocation raised.
C21_WitnessModel ==
    /\ op = "openai.get_streaming_response"
    /\ pc = "closed"
    /\ calls = << >>
    /\ Len(frames) = 2
    /\ IsError(frames[2])

-----------------------------------------------------------------------------
(* C22 *)

\* The frames the iterations of the loop yielded, in the order of the events.
RECURSIVE FlatFrames(_)
FlatFrames(outs) ==
    IF outs = << >> THEN << >>
    ELSE Head(outs).frames \o FlatFrames(Tail(outs))

\* The content one backend event is to be streamed as: none, or one text.
StreamedContentOf(ev) ==
    IF ModelStreamRun
    THEN (IF HasDeltaContent(ev) THEN <<ev.content>> ELSE << >>)
    ELSE (IF DecodeStream(ev).kind = "fragment"
          THEN <<DecodeStream(ev).text>> ELSE << >>)

\* C22: streaming is incremental and order-preserving: each backend event
\* produces at most one content-delta chunk, that chunk has been yielded when
\* the next event is requested, and the content-delta chunks appear in the
\* order of the events that produced them, none held back, moved or repeated.
C22_Incremental ==
    AgentStreamRun \/ ModelStreamRun =>
        /\ \A i \in 1..Len(outputs) :
              /\ ContentTexts(outputs[i].frames) = StreamedContentOf(consumed[i])
              /\ Cardinality({k \in 1..Len(outputs[i].frames) :
                                 IsContentChunk(outputs[i].frames[k])}) <= 1
        /\ pc = "loop" =>
              /\ frames # << >>
              /\ IsRoleChunk(frames[1])
              /\ Tail(frames) = FlatFrames(outputs)
        /\ ContentTexts(frames) = ContentTexts(FlatFrames(outputs))

\* Two events with different texts have been pulled and their two chunks are
\* the last two frames, while the loop is about to ask for a third event.
C22_Witness ==
    /\ ModelStreamRun
    /\ pc = "loop"
    /\ Len(consumed) = 2
    /\ CanYield(Locals, request)
    /\ ContentTexts(frames) = <<consumed[1].content, consumed[2].content>>
    /\ consumed[1].content # consumed[2].content

C22_WitnessAgent ==
    /\ AgentStreamRun
    /\ pc = "loop"
    /\ Len(consumed) = 2
    /\ Len(ContentTexts(frames)) = 2
    /\ ContentTexts(frames)[1] # ContentTexts(frames)[2]

-----------------------------------------------------------------------------
(* C23 *)

\* A byte chunk whose bytes are not valid UTF-8 and decode as Latin-1 to
\* non-blank text.
IsLatin1Chunk(ev) ==
    ev.shape = "chunk" /\ ev.enc = "latin1" /\ Truthy(Strip(ev.text))

Latin1Idx == {i \in 1..Len(consumed) : IsLatin1Chunk(consumed[i])}

\* C23: a byte chunk whose bytes are not valid UTF-8 is decoded as Latin-1
\* and, when the result is non-blank, yields a fragment instead of being
\* dropped, in the synchronous aggregation path and in the streaming path.
C23_Latin1Fallback ==
    /\ AgentSyncRun =>
          \A i \in Latin1Idx : Len(outputs[i].fragments) = 1
    /\ AgentStreamRun =>
          \A i \in Latin1Idx :
              /\ Len(outputs[i].frames) = 1
              /\ IsContentChunk(outputs[i].frames[1])

-----------------------------------------------------------------------------
(* C24 *)

Trimmed(t) == Truthy(t) /\ Strip(t) = t

\* C24: every fragment the agent-style decoder produces is a non-empty,
\* trimmed text: what is appended to the synchronous aggregate and what is
\* emitted as a content-delta chunk has no leading or trailing whitespace,
\* and whitespace-only values produce no fragment.
C24_FragmentsTrimmed ==
    /\ AgentSyncRun =>
          \A i \in 1..Len(full_response) : Trimmed(full_response[i])
    /\ AgentStreamRun =>
          \A i \in 1..Len(frames) :
              IsContentChunk(frames[i]) => Trimmed(frames[i].content)

-----------------------------------------------------------------------------
(* C25 *)

\* C25: the model-style get_response returns the backend-agnostic
\* placeholder whenever the backend yields no content (absent or empty), so
\* the returned content is always a non-empty text.
C25_ModelPlaceholder ==
    op = "openai.get_response" /\ pc = "returned" =>
        /\ result.kind = "return"
        /\ ~result.content_none
        /\ Truthy(result.content)

-----------------------------------------------------------------------------
(* C26 *)

\* The texts the streaming loop is to send for a sequence of events.
RECURSIVE StreamFragments(_)
StreamFragments(evs) ==
    IF evs = << >> THEN << >>
    ELSE (IF DecodeStream(Head(evs)).kind = "fragment"
          THEN <<DecodeStream(Head(evs)).text>> ELSE << >>)
         \o StreamFragments(Tail(evs))

\* The id, created and model the frames of a served request are to carry.
Identity(s) ==
    IF s.op = "app.stream_chat_completion" THEN AppRequest(s.request)
    ELSE s.request

\* What one served request looks like when nothing of another request has
\* reached it.
ServedAlone(s) ==
    LET g == s.locals
        own == StreamFragments(g.consumed)
        placeholders == {k \in 1..Len(g.frames) :
                            /\ IsContentChunk(g.frames[k])
                            /\ g.frames[k].content = AGENT_PLACEHOLDER}
    IN /\ \A k \in 1..Len(g.frames) :
             g.frames[k].kind = "chunk" =>
                /\ g.frames[k].id = Identity(s).completion_id
                /\ g.frames[k].created = Identity(s).created
                /\ g.frames[k].model = Identity(s).model
       /\ ContentTexts(g.frames) = own
       /\ g.has_sent_content <=> own # << >>
       /\ placeholders # {} <=>
             /\ own = << >>
             /\ \/ g.pc \in {"final", "done"}
                \/ g.pc = "closed" /\ ~g.caught /\ g.calls # << >>
       /\ Cardinality(placeholders) <= 1
       /\ \A k \in 1..Len(g.calls) :
             g.calls[k].input_text = LastUserContent(s.request.messages)

\* C26: under any interleaving of two concurrently handled streaming
\* requests, every chunk frame of a response carries that request's own id,
\* created timestamp and model, and each response's frames, its
\* has-sent-content decision and its placeholder follow from its own request
\* and its own backend events, as if it had been handled alone.
C26_Isolation ==
    op = "pair" =>
        /\ \A i \in 1..Len(served) : ServedAlone(served[i])
        /\ Len(backend_log) = Len(served[1].locals.calls)
                              + Len(served[2].locals.calls)

\* While the first generator is suspended in its loop after sending content,
\* the second one has sent its placeholder.
C26_Witness ==
    /\ op = "pair"
    /\ served[1].locals.pc = "loop"
    /\ served[1].locals.has_sent_content
    /\ served[2].locals.pc = "final"
    /\ ~served[2].locals.has_sent_content
    /\ Len(served[2].locals.consumed) = 1
    /\ served[1].locals.frames[1].id # served[2].locals.frames[1].id

-----------------------------------------------------------------------------
(* C27 *)

\* text is the content of the user message after which no user message comes.
IsMostRecentUserContent(messages, text) ==
    \E i \in 1..Len(messages) :
        /\ messages[i].role = "user"
        /\ messages[i].content = text
        /\ \A j \in (i + 1)..Len(messages) : messages[j].role # "user"

\* C27: every invocation of the agent backend carries exactly the content of
\* the most recent user-role message of the conversation as its input text,
\* whatever the other messages are; every invocation of the model backend
\* carries the full message sequence, unchanged and in order.
C27_BackendInput ==
    op # "pair" =>
        \A k \in 1..Len(calls) :
            /\ calls[k].api = "invoke_agent" =>
                  IsMostRecentUserContent(request.messages, calls[k].input_text)
            /\ calls[k].api = "completions.create" =>
                  calls[k].messages = request.messages

\* The agent backend was invoked for a conversation with two different user
\* messages followed by an assistant message.
C27_Witness ==
    /\ op = "bedrock.get_streaming_response"
    /\ Len(request.messages) = 3
    /\ request.messages[1].role = "user"
    /\ request.messages[2].role = "user"
    /\ request.messages[3].role = "assistant"
    /\ request.messages[1].content # request.messages[2].content
    /\ Len(calls) = 1
    /\ calls[1].input_text = request.messages[2].content

\* The model backend was invoked with three messages.
C27_WitnessModel ==
    /\ op = "openai.get_streaming_response"
    /\ Len(request.messages) = 3
    /\ Len(calls) = 1
    /\ calls[1].messages = request.messages

-----------------------------------------------------------------------------
(* C28 *)

\* The session id a request asks for: its own, or a fresh one.
SessionOf(r) == IF r.session_id = NoSession THEN FreshSession ELSE r.session_id

\* C28: every invocation of the agent backend made for a request that
\* supplies session_id uses exactly that session id, and a fresh session id
\* is used only when the request supplies none: in the HTTP handler, in the
\* streaming generator and in the agent-style adapter's get_response and
\* get_streaming_response.
C28_SessionPassThrough ==
    op \in {"app.chat_completions", "app.stream_chat_completion",
            "bedrock.get_response", "bedrock.get_streaming_response"} =>
        \A k \in 1..Len(calls) : calls[k].session_id = SessionOf(request)

\* The part of C28 the handler and its generator satisfy.
C28_HandlerPassesSession ==
    op \in {"app.chat_completions", "app.stream_chat_completion"} =>
        \A k \in 1..Len(calls) : calls[k].session_id = SessionOf(request)

-----------------------------------------------------------------------------
(* C29 *)

DefaultConfigured == environ.default_provider # NoName

\* C29 as stated: without an explicit name and with a configured default
\* provider the resolver returns the configured default, and the providers
\* are probed only when there is neither a name nor a default.
C29_Original ==
    Resolving /\ ~NameGiven(request.provider_name) /\ DefaultConfigured =>
        /\ result.kind = "return"
        /\ result.provider = environ.default_provider
        /\ constructed = <<environ.default_provider>>

\* C29: the resolver knows no configured default: without an explicit name
\* it always probes the providers in priority order, starting with bedrock,
\* and what it returns or raises is the same whatever default the
\* configuration names.
C29_AlwaysProbes ==
    Resolving /\ ~NameGiven(request.provider_name) =>
        /\ constructed # << >>
        /\ constructed[1] = ProviderOrder[1]
        /\ result.kind = "return" =>
              /\ Usable(result.provider)
              /\ \A p \in KnownProviders :
                    Usable(p) /\ p # result.provider => result.provider = "bedrock"
        /\ result.kind = "raise" => \A p \in KnownProviders : ~Usable(p)
        /\ DefaultConfigured /\ ~Usable(environ.default_provider) =>
              /\ result.kind = "return" <=> \E p \in KnownProviders : Usable(p)
              /\ result.error # <<"Provider is not available">>

\* The configuration names openai, both adapters are available, no name is
\* given: bedrock is returned.
C29_Witness ==
    /\ Resolving
    /\ request.provider_name = NoName
    /\ environ.default_provider = "openai"
    /\ Usable("bedrock")
    /\ Usable("openai")
    /\ result.provider = "bedrock"

-----------------------------------------------------------------------------
(* C30 *)

\* C30: a chat-completion request causes at most one backend invocation over
\* its whole lifetime, for the streaming and for the non-streaming dispatch
\* of POST /v1/chat/completions.
C30_AtMostOneInvocation ==
    op # "pair" /\ op # "get_provider" => Len(calls) <= 1

-----------------------------------------------------------------------------
(* C31 *)

\* A byte chunk whose bytes decode as UTF-8 to non-blank text that json.loads
\* accepts, the value being anything but a dict with a content key.
IsJsonWithoutContent(ev) ==
    /\ ev.shape = "chunk"
    /\ ev.enc = "utf8"
    /\ Truthy(Strip(ev.text))
    /\ ev.json \in {"scalar", "object_nocontent"}

JsonWithoutContentIdx ==
    {i \in 1..Len(consumed) : IsJsonWithoutContent(consumed[i])}

\* Such a chunk was the only event of a stream that ran to its end.
OnlyJsonWithoutContent ==
    Len(consumed) = 1 /\ IsJsonWithoutContent(consumed[1])

\* Neither loop makes anything of such a chunk, and neither loop is left.
JsonWithoutContentIsSkipped ==
    (AgentSyncRun \/ AgentStreamRun) =>
        \A i \in JsonWithoutContentIdx :
            /\ outputs[i].fragments = << >>
            /\ outputs[i].frames = << >>
            /\ ~outputs[i].raised

C31_WitnessStream ==
    /\ AgentStreamRun
    /\ Completed
    /\ OnlyJsonWithoutContent
    /\ consumed[1].json = "object_nocontent"

-----------------------------------------------------------------------------
(* C32 *)

\* The call was turned down with the "No user message found" error: the 400
\* answer of the handler, the ValueError of _get_last_user_message as the
\* adapter reports it (an "Error: ..." content from get_response, an error
\* envelope from get_streaming_response), or the error envelope of the
\* generator of app.py.
RejectedNoUserMessage ==
    \/ result.error = NO_USER_MESSAGE
    \/ result.kind = "return" /\ result.content = <<"Error: ">> \o NO_USER_MESSAGE
    \/ \E k \in FrameIdx(IsError) : frames[k].message = NO_USER_MESSAGE

\* C32: a request that contains at least one user-role message is never
\* rejected with the "No user message found" error, in particular not when
\* the most recent user message has empty content while an earlier user
\* message is non-empty; the rejection occurs only when no message has role
\* user.
C32_UserMessageNeverRejected ==
    HasUser(request.messages) => ~RejectedNoUserMessage

====
